---- MODULE Spec2Model ----
(***************************************************************************)
(* A model of k8s_prometheus_analyzer/monitor.py: one run of main(), the   *)
(* reachability probe, the four metric queries, analyze_usage, the table   *)
(* and the JSON export.                                                    *)
(*                                                                         *)
(* Numbers.  A Python float is modelled as an exact rational [n, d] in     *)
(* lowest terms with d > 0.  The wire texts of the model are chosen so     *)
(* that the IEEE results of the program (comparisons and formatted         *)
(* strings) coincide with the exact ones.                                  *)
(***************************************************************************)
EXTENDS Integers, Sequences, FiniteSets, TLC

\* ------------------------------------------------------------------ bounds
\* Largest number of samples one query answers with.
MaxSeriesLen == 2
\* Largest number of samples the four answers of one run hold together.
MaxSamples == 3

\* --------------------------------------------------------------- rationals
Abs(x) == IF x < 0 THEN -x ELSE x

RECURSIVE GCD(_, _)
GCD(a, b) == IF b = 0 THEN a ELSE GCD(b, a % b)

Rat(n, d) == LET g == GCD(Abs(n), d) IN [n |-> n \div g, d |-> d \div g]

Num(k) == [n |-> k, d |-> 1]

Less(x, y) == x.n * y.d < y.n * x.d

Greater(x, y) == Less(y, x)

Times(x, k) == Rat(x.n * k, x.d)

\* x / y for y # 0
Quotient(x, y) ==
    IF y.n > 0 THEN Rat(x.n * y.d, x.d * y.n) ELSE Rat(-(x.n * y.d), x.d * (-y.n))

\* None, the default of dict.get for an absent request
None == [none |-> TRUE]

\* Python truth value of an optional float: None and 0.0 are false
Truthy(x) == x # None /\ x.n # 0

\* ------------------------------------------------------------ float(text)
\* The texts float() accepts, among those of the model
NumericTexts ==
    {"0", "-1", "0.04", "0.05", "0.9", "1.0", "1.5",
     "10485760", "31457280", "67108864", "629145600"}

\* A text float() rejects with ValueError
BadText == "abc"

float(text) ==
    CASE text = "0"         -> Num(0)
      [] text = "-1"        -> Num(-1)
      [] text = "0.04"      -> Rat(4, 100)
      [] text = "0.05"      -> Rat(5, 100)
      [] text = "0.9"       -> Rat(9, 10)
      [] text = "1.0"       -> Num(1)
      [] text = "1.5"       -> Rat(15, 10)
      [] text = "10485760"  -> Num(10485760)
      [] text = "31457280"  -> Num(31457280)
      [] text = "67108864"  -> Num(67108864)
      [] text = "629145600" -> Num(629145600)

\* 1024**2
MiB == 1048576

\* -------------------------------------------------- f"{x:.2f}", f"{x:.1f}"
RECURSIVE Pow10(_)
Pow10(k) == IF k = 0 THEN 1 ELSE 10 * Pow10(k - 1)

\* n / d for n >= 0, rounded to an integer, ties to even
RoundHalfEven(n, d) ==
    LET q == n \div d
        r == n % d
    IN  IF 2 * r > d \/ (2 * r = d /\ q % 2 = 1) THEN q + 1 ELSE q

RECURSIVE ZeroPad(_, _)
ZeroPad(k, width) ==
    IF width = 0 THEN "" ELSE ZeroPad(k \div 10, width - 1) \o ToString(k % 10)

\* format(x, ".<decimals>f")
Fixed(x, decimals) ==
    LET s == Pow10(decimals)
        m == RoundHalfEven(Abs(x.n) * s, x.d)
    IN  (IF x.n < 0 THEN "-" ELSE "") \o ToString(m \div s) \o "." \o ZeroPad(m % s, decimals)

\* ", ".join(parts) and "; ".join(parts)
RECURSIVE Join(_, _)
Join(parts, sep) ==
    IF parts = <<>> THEN ""
    ELSE IF Len(parts) = 1 THEN parts[1]
    ELSE parts[1] \o sep \o Join(Tail(parts), sep)

\* ------------------------------------------------------- the wire format
\* One entry of a query result: a label set and a [timestamp, text] pair
Sample(pod, namespace, text) ==
    [metric |-> [pod |-> pod, namespace |-> namespace], value |-> <<0, text>>]

\* The same without the "value" key
NoValue(pod, namespace) == [metric |-> [pod |-> pod, namespace |-> namespace]]

\* The same without the "pod" label, and without the "namespace" label
NoPod(namespace, text) == [metric |-> [namespace |-> namespace], value |-> <<0, text>>]

NoNamespace(pod, text) == [metric |-> [pod |-> pod], value |-> <<0, text>>]

\* What the backend may answer to each of the four queries
CpuUsageSamples ==
    {Sample("a", "ns", t) : t \in {"0.04", "0.05", "0.9", "1.5", BadText}}
        \cup {Sample("b", "ns", "0.04"), NoValue("a", "ns"), NoPod("ns", "0.04"),
              NoNamespace("a", "0.04")}

MemoryUsageSamples ==
    {Sample("a", "ns", t) : t \in {"10485760", "31457280", "629145600", BadText}}
        \cup {NoPod("ns", "10485760")}

CpuRequestSamples == {Sample("a", "ns", t) : t \in {"0", "1.0", "-1", BadText}}

MemoryRequestSamples == {Sample("a", "ns", t) : t \in {"0", "67108864", BadText}}

RECURSIVE SeqsUpTo(_, _)
SeqsUpTo(S, k) ==
    IF k = 0 THEN {<<>>}
    ELSE LET shorter == SeqsUpTo(S, k - 1)
         IN  shorter \cup {Append(q, e) : q \in {r \in shorter : Len(r) = k - 1}, e \in S}

\* ----------------------------------------------------------- analyze_usage
\* The exception one item of a dict comprehension of lines 59-61 raises:
\* m["metric"]["pod"], m["metric"]["namespace"], then float(m["value"][1])
ItemError(m) ==
    IF "pod" \notin DOMAIN m.metric \/ "namespace" \notin DOMAIN m.metric THEN "KeyError"
    ELSE IF "value" \notin DOMAIN m THEN "KeyError"
    ELSE IF m.value[2] \notin NumericTexts THEN "ValueError"
    ELSE "none"

Key(m) == <<m.metric.pod, m.metric.namespace>>

\* The comprehension of lines 59-61 keeping the first item of a key
RECURSIVE DictOfFirstWins(_, _, _)
DictOfFirstWins(series, divisor, map) ==
    IF series = <<>> THEN [exc |-> "none", map |-> map]
    ELSE LET m == Head(series)
         IN  IF ItemError(m) # "none" THEN [exc |-> ItemError(m), map |-> map]
             ELSE DictOfFirstWins(Tail(series), divisor,
                         map @@ (Key(m) :> Quotient(float(m.value[2]), Num(divisor))))

\* {(m["metric"]["pod"], m["metric"]["namespace"]): float(m["value"][1]) / divisor
\*  for m in series}: the items are stored in series order, a later one
\*  replacing an earlier one of the same key
RECURSIVE DictOf(_, _, _)
DictOf(series, divisor, map) ==
    IF series = <<>> THEN [exc |-> "none", map |-> map]
    ELSE LET m == Head(series)
         IN  IF ItemError(m) # "none" THEN [exc |-> ItemError(m), map |-> map]
             ELSE DictOf(Tail(series), divisor,
                         (Key(m) :> Quotient(float(m.value[2]), Num(divisor))) @@ map)

EmptyDict == [k \in {} |-> None]

\* map.get(key, default)
Get(map, key, default) == IF key \in DOMAIN map THEN map[key] ELSE default

\* cpu["metric"].get(name); the None of an absent label is modelled as "",
\* both being false at line 66
Label(cpu, name) == IF name \in DOMAIN cpu.metric THEN cpu.metric[name] ELSE ""

\* Line 75 without its "> 0": (usage / request * 100) if request is not None else 0
PercentageUnguarded(usage, request) ==
    IF request = None THEN [exc |-> "none", val |-> Num(0)]
    ELSE IF request.n = 0 THEN [exc |-> "ZeroDivisionError", val |-> Num(0)]
    ELSE [exc |-> "none", val |-> Times(Quotient(usage, request), 100)]

\* Line 75 without its "* 100"
PercentageAsFraction(usage, request) ==
    IF Truthy(request) /\ Greater(request, Num(0))
    THEN [exc |-> "none", val |-> Quotient(usage, request)]
    ELSE [exc |-> "none", val |-> Num(0)]

\* (usage / request * 100) if request and request > 0 else 0
Percentage(usage, request) ==
    IF Truthy(request) /\ Greater(request, Num(0))
    THEN [exc |-> "none", val |-> Times(Quotient(usage, request), 100)]
    ELSE [exc |-> "none", val |-> Num(0)]

\* The seven rules, in the order of their if statements
Rules ==
    <<"low_cpu", "low_mem", "over_utilized", "high_mem",
      "cpu_throttling", "mem_overcommit", "near_idle">>

\* Line 82, with a presence test in place of the truth test
LowCpuIfPresent(L) == L.cpu_request # None /\ Less(L.cpu_usage, Rat(1, 10))

\* Line 82: if cpu_request and cpu_usage < 0.1
LowCpu(L) == Truthy(L.cpu_request) /\ Less(L.cpu_usage, Rat(1, 10))

\* Line 87: if mem_request and mem_usage < 50
LowMem(L) == Truthy(L.mem_request) /\ Less(L.mem_usage, Num(50))

\* Line 92: if cpu_percentage > 80
OverUtilized(L) == Greater(L.cpu_percentage, Num(80))

\* Line 96: if mem_usage > 500
HighMem(L) == Greater(L.mem_usage, Num(500))

\* Line 101: if cpu_request and cpu_usage > cpu_request
CpuThrottling(L) == Truthy(L.cpu_request) /\ Greater(L.cpu_usage, L.cpu_request)

\* Line 106: if mem_request and mem_request > mem_usage * 3
MemOvercommit(L) == Truthy(L.mem_request) /\ Greater(L.mem_request, Times(L.mem_usage, 3))

\* Line 111, with <= in place of < for the CPU usage
NearIdleInclusive(L) == ~Greater(L.cpu_usage, Rat(5, 100)) /\ Less(L.mem_usage, Num(20))

\* Line 111: if cpu_usage < 0.05 and mem_usage < 20
NearIdle(L) == Less(L.cpu_usage, Rat(5, 100)) /\ Less(L.mem_usage, Num(20))

RuleFires(rule, L) ==
    CASE rule = "low_cpu" -> LowCpu(L)
      [] rule = "low_mem" -> LowMem(L)
      [] rule = "over_utilized" -> OverUtilized(L)
      [] rule = "high_mem" -> HighMem(L)
      [] rule = "cpu_throttling" -> CpuThrottling(L)
      [] rule = "mem_overcommit" -> MemOvercommit(L)
      [] rule = "near_idle" -> NearIdle(L)

SuggestionOf(rule) ==
    CASE rule = "low_cpu" -> "Reduce CPU requests"
      [] rule = "low_mem" -> "Reduce memory requests"
      [] rule = "over_utilized" -> "Increase CPU limits or add replicas"
      [] rule = "high_mem" -> "Increase Memory limits"
      [] rule = "cpu_throttling" -> "Increase CPU requests"
      [] rule = "mem_overcommit" -> "Reduce memory requests"
      [] rule = "near_idle" -> "Consider reducing replicas"

ReasonOf(rule, L) ==
    CASE rule = "low_cpu" ->
            "CPU usage (" \o Fixed(L.cpu_usage, 2) \o " cores) is far lower than request ("
                \o Fixed(L.cpu_request, 2) \o " cores)"
      [] rule = "low_mem" ->
            "Memory usage (" \o Fixed(L.mem_usage, 2)
                \o " MB) is significantly lower than request ("
                \o Fixed(L.mem_request, 2) \o " MB)"
      [] rule = "over_utilized" ->
            "High CPU utilization: " \o Fixed(L.cpu_percentage, 1) \o "%"
      [] rule = "high_mem" ->
            "Memory usage is high: " \o Fixed(L.mem_usage, 2) \o " MB"
      [] rule = "cpu_throttling" ->
            "CPU usage (" \o Fixed(L.cpu_usage, 2) \o " cores) exceeds requested ("
                \o Fixed(L.cpu_request, 2) \o " cores)"
      [] rule = "mem_overcommit" ->
            "Memory request (" \o Fixed(L.mem_request, 2)
                \o " MB) is significantly higher than usage ("
                \o Fixed(L.mem_usage, 2) \o " MB)"
      [] rule = "near_idle" -> "Pod is using minimal resources"

\* Lines 78-113 as an if/elif chain: nothing is tried after the first match
RECURSIVE EvaluateRulesElif(_, _, _)
EvaluateRulesElif(i, L, acc) ==
    IF i > Len(Rules) THEN acc
    ELSE IF RuleFires(Rules[i], L)
    THEN [suggestions |-> Append(acc.suggestions, SuggestionOf(Rules[i])),
          reasons |-> Append(acc.reasons, ReasonOf(Rules[i], L)),
          fired |-> Append(acc.fired, Rules[i])]
    ELSE EvaluateRulesElif(i + 1, L, acc)

\* Lines 78-113: the if statements run one after the other, each appending
\* to both lists; fired keeps which statements appended
RECURSIVE EvaluateRules(_, _, _)
EvaluateRules(i, L, acc) ==
    IF i > Len(Rules) THEN acc
    ELSE EvaluateRules(i + 1, L,
            IF RuleFires(Rules[i], L)
            THEN [suggestions |-> Append(acc.suggestions, SuggestionOf(Rules[i])),
                  reasons |-> Append(acc.reasons, ReasonOf(Rules[i], L)),
                  fired |-> Append(acc.fired, Rules[i])]
            ELSE acc)

NoLocals == [cpu_usage |-> None]

\* The try block of one iteration, lines 70-113: the exception it raises, or
\* "none" and the locals at its end
TryBlock(cpu, pod, namespace, memory_map, cpu_request_map, memory_request_map) ==
    IF "value" \notin DOMAIN cpu THEN [exc |-> "KeyError", locals |-> NoLocals]
    ELSE IF cpu.value[2] \notin NumericTexts THEN [exc |-> "ValueError", locals |-> NoLocals]
    ELSE
      LET cpu_usage == float(cpu.value[2])
          mem_usage == Get(memory_map, <<pod, namespace>>, Num(0))
          cpu_request == Get(cpu_request_map, <<pod, namespace>>, None)
          mem_request == Get(memory_request_map, <<pod, namespace>>, None)
          cpu_percentage == Percentage(cpu_usage, cpu_request)
          mem_percentage == Percentage(mem_usage, mem_request)
      IN  IF cpu_percentage.exc # "none"
          THEN [exc |-> cpu_percentage.exc, locals |-> NoLocals]
          ELSE IF mem_percentage.exc # "none"
          THEN [exc |-> mem_percentage.exc, locals |-> NoLocals]
          ELSE
            LET L == [cpu_usage |-> cpu_usage, mem_usage |-> mem_usage,
                      cpu_request |-> cpu_request, mem_request |-> mem_request,
                      cpu_percentage |-> cpu_percentage.val,
                      mem_percentage |-> mem_percentage.val]
                lists == EvaluateRules(1, L,
                            [suggestions |-> <<>>, reasons |-> <<>>, fired |-> <<>>])
            IN  [exc |-> "none",
                 locals |-> [cpu_usage |-> cpu_usage, mem_usage |-> mem_usage,
                             cpu_request |-> cpu_request, mem_request |-> mem_request,
                             cpu_percentage |-> cpu_percentage.val,
                             mem_percentage |-> mem_percentage.val,
                             suggestions |-> lists.suggestions,
                             reasons |-> lists.reasons,
                             fired |-> lists.fired]]

\* The dict appended at lines 116-125
Recommendation(pod, namespace, L) ==
    [namespace |-> namespace,
     pod_name |-> pod,
     cpu_usage |-> Fixed(L.cpu_usage, 2) \o " cores",
     cpu_percentage |-> Fixed(L.cpu_percentage, 1) \o "%",
     memory_usage |-> Fixed(L.mem_usage, 2) \o " MB",
     memory_percentage |-> Fixed(L.mem_percentage, 1) \o "%",
     suggested_optimization |-> Join(L.suggestions, ", "),
     reason |-> Join(L.reasons, "; ")]

\* Lines 115-125 without the "if suggestions"
EmitAlways(recommendations, pod, namespace, L) ==
    Append(recommendations, Recommendation(pod, namespace, L))

\* Lines 115-125: if suggestions: recommendations.append({...})
Emit(recommendations, pod, namespace, L) ==
    IF L.suggestions # <<>>
    THEN Append(recommendations, Recommendation(pod, namespace, L))
    ELSE recommendations

\* except (KeyError, ValueError, TypeError)
Caught == {"KeyError", "ValueError", "TypeError"}

\* The for loop of lines 63-128 from sample i on.  acc.pods keeps, for every
\* iteration, the index of its sample, how it ended and its locals.
RECURSIVE Loop(_, _, _, _, _, _)
Loop(i, cpu_data, memory_map, cpu_request_map, memory_request_map, acc) ==
    IF i > Len(cpu_data) THEN acc
    ELSE
      LET cpu == cpu_data[i]
          pod == Label(cpu, "pod")
          namespace == Label(cpu, "namespace")
          again(a) == Loop(i + 1, cpu_data, memory_map, cpu_request_map,
                           memory_request_map, a)
      IN  IF pod = "" \/ namespace = ""
          THEN again([acc EXCEPT !.pods = Append(@,
                        [index |-> i, outcome |-> "continue", pod |-> pod,
                         namespace |-> namespace, locals |-> NoLocals])])
          ELSE
            LET t == TryBlock(cpu, pod, namespace, memory_map, cpu_request_map,
                              memory_request_map)
            IN  IF t.exc = "none"
                THEN again([acc EXCEPT
                        !.recommendations = Emit(@, pod, namespace, t.locals),
                        !.pods = Append(@,
                            [index |-> i, outcome |-> "evaluated", pod |-> pod,
                             namespace |-> namespace, locals |-> t.locals])])
                ELSE IF t.exc \in Caught
                THEN again([acc EXCEPT
                        !.warnings = Append(@, pod),
                        !.pods = Append(@,
                            [index |-> i, outcome |-> "warning", pod |-> pod,
                             namespace |-> namespace, locals |-> NoLocals])])
                ELSE [acc EXCEPT !.exc = t.exc]

NoResult == [exc |-> "none", recommendations |-> <<>>, warnings |-> <<>>, pods |-> <<>>]

analyze_usage(cpuData, memoryData, cpuRequests, memoryRequests) ==
    LET memory_map == DictOf(memoryData, MiB, EmptyDict)
        cpu_request_map == DictOf(cpuRequests, 1, EmptyDict)
        memory_request_map == DictOf(memoryRequests, MiB, EmptyDict)
    IN  IF memory_map.exc # "none" THEN [NoResult EXCEPT !.exc = memory_map.exc]
        ELSE IF cpu_request_map.exc # "none"
        THEN [NoResult EXCEPT !.exc = cpu_request_map.exc]
        ELSE IF memory_request_map.exc # "none"
        THEN [NoResult EXCEPT !.exc = memory_request_map.exc]
        ELSE Loop(1, cpuData, memory_map.map, cpu_request_map.map,
                  memory_request_map.map, NoResult)

\* -------------------------------------------------------------------- main
VARIABLES
    pc,               \* the statement of main() that runs next
    cpu_data,         \* main's locals: the four query results ...
    memory_data,
    cpu_requests,
    memory_requests,
    analysis,         \* ... what analyze_usage did and returned
    trace,            \* the requests sent and the functions called, in order
    log,              \* the records written through logging
    stdout,           \* the rows of the table printed
    file              \* the output file

vars ==
    <<pc, cpu_data, memory_data, cpu_requests, memory_requests, analysis,
      trace, log, stdout, file>>

\* QUERIES, in the order main() sends them
QUERIES == <<"cpu_usage", "memory_usage", "cpu_requests", "memory_requests">>

\* How requests.get(PROMETHEUS_URL[:-12], timeout=5) may end: a status code,
\* or a requests.exceptions.RequestException
ProbeOutcomes == {"200", "204", "503", "ConnectionError", "Timeout"}

\* check_prometheus_availability(): its return value and its log record
check_prometheus_availability(outcome) ==
    IF outcome \in {"ConnectionError", "Timeout"}
    THEN [ok |-> FALSE, record |-> [level |-> "ERROR", msg |-> "Prometheus not available"]]
    ELSE IF outcome = "200"
    THEN [ok |-> TRUE, record |-> [level |-> "INFO", msg |-> "Prometheus is accessible"]]
    ELSE [ok |-> FALSE,
          record |-> [level |-> "ERROR", msg |-> "Prometheus responded with status"]]

\* How session.get(...) followed by raise_for_status() may end
FetchFailures == {"ConnectionError", "Timeout", "HTTPError"}

\* query_prometheus(query): the list returned, the log records written and
\* how the call ended (every failure is caught as a RequestException)
query_prometheus(outcome, result) ==
    IF outcome \in FetchFailures
    THEN [data |-> <<>>, caught |-> "RequestException",
          records |-> <<[level |-> "ERROR", msg |-> "Error querying Prometheus"]>>]
    ELSE [data |-> result, caught |-> "none", records |-> <<>>]

Fetched == Len(cpu_data) + Len(memory_data) + Len(cpu_requests) + Len(memory_requests)

\* The answers a query may get: a failure, or samples within the bounds
Answers(samples) ==
    [outcome : FetchFailures, result : {<<>>}]
        \cup [outcome : {"ok"},
              result : {r \in SeqsUpTo(samples, MaxSeriesLen) :
                            Fetched + Len(r) <= MaxSamples}]

NoFile == [written |-> FALSE, content |-> <<>>]

Init ==
    /\ pc = "check_prometheus_availability"
    /\ cpu_data = <<>>
    /\ memory_data = <<>>
    /\ cpu_requests = <<>>
    /\ memory_requests = <<>>
    /\ analysis = [NoResult EXCEPT !.exc = "pending"]
    /\ trace = <<>>
    /\ log = <<>>
    /\ stdout = <<>>
    /\ file = NoFile

\* Lines 162-165
CheckAvailability ==
    /\ pc = "check_prometheus_availability"
    /\ \E outcome \in ProbeOutcomes :
          LET r == check_prometheus_availability(outcome)
          IN  /\ trace' = Append(trace, [op |-> "GET", arg |-> "/", outcome |-> outcome])
              /\ IF r.ok
                 THEN /\ log' = Append(log, r.record)
                      /\ pc' = "cpu_usage"
                 ELSE /\ log' = log \o <<r.record,
                                 [level |-> "ERROR", msg |-> "Exiting: Prometheus is not reachable"]>>
                      /\ pc' = "returned"
    /\ UNCHANGED <<cpu_data, memory_data, cpu_requests, memory_requests, analysis,
                   stdout, file>>

\* Line 168
QueryCpuUsage ==
    /\ pc = "cpu_usage"
    /\ \E a \in Answers(CpuUsageSamples) :
          LET r == query_prometheus(a.outcome, a.result)
          IN  /\ cpu_data' = r.data
              /\ log' = log \o r.records
              /\ trace' = Append(trace,
                                 [op |-> "GET", arg |-> "cpu_usage", outcome |-> r.caught])
    /\ pc' = "memory_usage"
    /\ UNCHANGED <<memory_data, cpu_requests, memory_requests, analysis, stdout, file>>

\* Line 169
QueryMemoryUsage ==
    /\ pc = "memory_usage"
    /\ \E a \in Answers(MemoryUsageSamples) :
          LET r == query_prometheus(a.outcome, a.result)
          IN  /\ memory_data' = r.data
              /\ log' = log \o r.records
              /\ trace' = Append(trace,
                                 [op |-> "GET", arg |-> "memory_usage", outcome |-> r.caught])
    /\ pc' = "cpu_requests"
    /\ UNCHANGED <<cpu_data, cpu_requests, memory_requests, analysis, stdout, file>>

\* Line 170
QueryCpuRequests ==
    /\ pc = "cpu_requests"
    /\ \E a \in Answers(CpuRequestSamples) :
          LET r == query_prometheus(a.outcome, a.result)
          IN  /\ cpu_requests' = r.data
              /\ log' = log \o r.records
              /\ trace' = Append(trace,
                                 [op |-> "GET", arg |-> "cpu_requests", outcome |-> r.caught])
    /\ pc' = "memory_requests"
    /\ UNCHANGED <<cpu_data, memory_data, memory_requests, analysis, stdout, file>>

\* Line 171
QueryMemoryRequests ==
    /\ pc = "memory_requests"
    /\ \E a \in Answers(MemoryRequestSamples) :
          LET r == query_prometheus(a.outcome, a.result)
          IN  /\ memory_requests' = r.data
              /\ log' = log \o r.records
              /\ trace' = Append(trace,
                                 [op |-> "GET", arg |-> "memory_requests",
                                  outcome |-> r.caught])
    /\ pc' = "analyze_usage"
    /\ UNCHANGED <<cpu_data, memory_data, cpu_requests, analysis, stdout, file>>

\* Line 173.  An exception analyze_usage lets through ends main().
Analyze ==
    /\ pc = "analyze_usage"
    /\ LET r == analyze_usage(cpu_data, memory_data, cpu_requests, memory_requests)
       IN  /\ analysis' = r
           /\ trace' = Append(trace,
                              [op |-> "call", arg |-> "analyze_usage", outcome |-> r.exc])
           /\ log' = log \o [i \in 1..Len(r.warnings) |->
                                [level |-> "WARNING", msg |-> "Skipping pod " \o r.warnings[i]]]
           /\ pc' = IF r.exc = "none" THEN "display_recommendations" ELSE "raised"
    /\ UNCHANGED <<cpu_data, memory_data, cpu_requests, memory_requests, stdout, file>>

\* One row of formatted_recommendations, lines 136-140, but for its last
\* column, which textwrap.fill lays out
Row(rec) ==
    <<rec.namespace, rec.pod_name, rec.cpu_usage, rec.cpu_percentage, rec.memory_usage,
      rec.memory_percentage>>

display_recommendations(recommendations) ==
    IF recommendations # <<>>
    THEN [rows |-> [i \in 1..Len(recommendations) |-> Row(recommendations[i])],
          records |-> <<>>]
    ELSE [rows |-> <<>>,
          records |-> <<[level |-> "INFO", msg |-> "No optimizations needed"]>>]

\* Line 175
Display ==
    /\ pc = "display_recommendations"
    /\ LET r == display_recommendations(analysis.recommendations)
       IN  /\ stdout' = r.rows
           /\ log' = log \o r.records
    /\ trace' = Append(trace,
                       [op |-> "call", arg |-> "display_recommendations", outcome |-> "none"])
    /\ pc' = "export_to_json"
    /\ UNCHANGED <<cpu_data, memory_data, cpu_requests, memory_requests, analysis, file>>

\* export_to_json(recommendations, filename): IOError is caught and logged
export_to_json(recommendations, outcome) ==
    IF outcome = "IOError"
    THEN [file |-> NoFile,
          record |-> [level |-> "ERROR", msg |-> "Error writing to file"]]
    ELSE [file |-> [written |-> TRUE, content |-> recommendations],
          record |-> [level |-> "INFO", msg |-> "Data exported successfully"]]

\* Line 176
Export ==
    /\ pc = "export_to_json"
    /\ \E outcome \in {"ok", "IOError"} :
          LET r == export_to_json(analysis.recommendations, outcome)
          IN  /\ file' = r.file
              /\ log' = Append(log, r.record)
              /\ trace' = Append(trace,
                                 [op |-> "call", arg |-> "export_to_json", outcome |-> outcome])
    /\ pc' = "returned"
    /\ UNCHANGED <<cpu_data, memory_data, cpu_requests, memory_requests, analysis, stdout>>

Next ==
    \/ CheckAvailability
    \/ QueryCpuUsage
    \/ QueryMemoryUsage
    \/ QueryCpuRequests
    \/ QueryMemoryRequests
    \/ Analyze
    \/ Display
    \/ Export

Spec == Init /\ [][Next]_vars

\* ------------------------------------------------------------- properties
Range(q) == {q[i] : i \in 1..Len(q)}

Returned == analysis.exc = "none"

\* The iterations of the loop that reached the end of the try block
Evaluated == {k \in 1..Len(analysis.pods) : analysis.pods[k].outcome = "evaluated"}

Fired(k) == Range(analysis.pods[k].locals.fired)

\* A sample with both labels, a value and a numeric text
Sound(m) ==
    /\ {"pod", "namespace"} \subseteq DOMAIN m.metric
    /\ "value" \in DOMAIN m
    /\ m.value[2] \in NumericTexts

\* The samples of a series that carry the key (pod, namespace)
Entries(series, pod, namespace) ==
    {i \in 1..Len(series) :
        /\ {"pod", "namespace"} \subseteq DOMAIN series[i].metric
        /\ series[i].metric.pod = pod
        /\ series[i].metric.namespace = namespace}

Last(S) == CHOOSE i \in S : \A j \in S : j <= i

\* The number the last sample of the key carries
LastValue(series, pod, namespace) ==
    float(series[Last(Entries(series, pod, namespace))].value[2])

\* The suggestion strings analyze_usage can build
RuleSets == SUBSET Range(Rules)

Chosen(S) == LET In(r) == r \in S IN SelectSeq(Rules, In)

SuggestionsOf(rules) == [i \in 1..Len(rules) |-> SuggestionOf(rules[i])]

\* text is a suggestion string with phrase among its parts
Includes(text, phrase) ==
    \E S \in RuleSets :
        /\ text = Join(SuggestionsOf(Chosen(S)), ", ")
        /\ \E r \in S : SuggestionOf(r) = phrase

\* C1: a malformed sample in any of the four series never makes
\* analyze_usage raise: it returns, and every sound sample of the CPU-usage
\* series is evaluated.
C1_MalformedSampleNeverAborts ==
    analysis.exc # "pending" =>
        /\ Returned
        /\ \A i \in 1..Len(cpu_data) :
              (Sound(cpu_data[i]) /\ cpu_data[i].metric.pod # "") =>
                  \E k \in Evaluated : analysis.pods[k].index = i

\* The scenario of C2: pod (a, ns) with 0.05 cores used, 1.0 requested, 10 MB
\* used and no memory request
Scenario ==
    /\ analysis.exc # "pending"
    /\ cpu_data = <<Sample("a", "ns", "0.05")>>
    /\ cpu_requests = <<Sample("a", "ns", "1.0")>>
    /\ memory_data = <<Sample("a", "ns", "10485760")>>
    /\ memory_requests = <<>>

ScenarioFields ==
    /\ Returned
    /\ Len(analysis.recommendations) = 1
    /\ analysis.recommendations[1].pod_name = "a"
    /\ analysis.recommendations[1].namespace = "ns"
    /\ analysis.recommendations[1].cpu_usage = "0.05 cores"
    /\ analysis.recommendations[1].cpu_percentage = "5.0%"
    /\ analysis.recommendations[1].memory_usage = "10.00 MB"

\* C2 as stated: in the scenario there is exactly one Recommendation, with
\* cpu_usage "0.05 cores", cpu_percentage "5.0%", memory_usage "10.00 MB", and
\* its suggestions include "Reduce CPU requests" and "Consider reducing
\* replicas".
C2_ScenarioAsStated ==
    Scenario =>
        /\ ScenarioFields
        /\ Includes(analysis.recommendations[1].suggested_optimization,
                    "Reduce CPU requests")
        /\ Includes(analysis.recommendations[1].suggested_optimization,
                    "Consider reducing replicas")

\* C2 amended: the same Recommendation, whose suggestions include "Reduce CPU
\* requests" and do not include "Consider reducing replicas" (0.05 is not
\* below 0.05).
C2_Scenario ==
    Scenario =>
        /\ ScenarioFields
        /\ Includes(analysis.recommendations[1].suggested_optimization,
                    "Reduce CPU requests")
        /\ ~Includes(analysis.recommendations[1].suggested_optimization,
                     "Consider reducing replicas")

C2_Witness == Scenario /\ Returned /\ Len(analysis.recommendations) = 1

\* C3 as stated: Low CPU fires exactly when the pod has an entry in the
\* CPU-request series, whatever its value, and cpu_usage < 0.1; Low memory
\* exactly when it has an entry in the memory-request series, whatever its
\* value, and mem_usage < 50.
C3_PresenceAsStated ==
    Returned =>
        \A k \in Evaluated :
            LET p == analysis.pods[k]
            IN  /\ "low_cpu" \in Fired(k) <=>
                      /\ Entries(cpu_requests, p.pod, p.namespace) # {}
                      /\ Less(p.locals.cpu_usage, Rat(1, 10))
                /\ "low_mem" \in Fired(k) <=>
                      /\ Entries(memory_requests, p.pod, p.namespace) # {}
                      /\ Less(p.locals.mem_usage, Num(50))

\* C3 amended: Low CPU fires exactly when the pod has an entry in the
\* CPU-request series whose value is not 0 and cpu_usage < 0.1; Low memory
\* exactly when it has an entry in the memory-request series whose value is
\* not 0 and mem_usage < 50.
C3_NonZeroRequest ==
    Returned =>
        \A k \in Evaluated :
            LET p == analysis.pods[k]
            IN  /\ "low_cpu" \in Fired(k) <=>
                      /\ Entries(cpu_requests, p.pod, p.namespace) # {}
                      /\ LastValue(cpu_requests, p.pod, p.namespace).n # 0
                      /\ Less(p.locals.cpu_usage, Rat(1, 10))
                /\ "low_mem" \in Fired(k) <=>
                      /\ Entries(memory_requests, p.pod, p.namespace) # {}
                      /\ LastValue(memory_requests, p.pod, p.namespace).n # 0
                      /\ Less(p.locals.mem_usage, Num(50))

\* A pod whose CPU request is 0 and whose usage is below 0.1, next to a
\* memory request that makes Low memory fire
C3_Witness ==
    /\ Returned
    /\ \E k \in Evaluated :
          LET p == analysis.pods[k]
          IN  /\ Entries(cpu_requests, p.pod, p.namespace) # {}
              /\ p.locals.cpu_request = Num(0)
              /\ Less(p.locals.cpu_usage, Rat(1, 10))
              /\ "low_mem" \in Fired(k)

\* C4: cpu_percentage is cpu_usage / cpu_request * 100 when the request is
\* > 0 and 0 when it is absent or <= 0, nothing is ever divided by zero, the
\* same for mem_percentage, and a pod without memory-usage sample has
\* mem_usage 0 and mem_percentage 0.
C4_Percentages ==
    /\ analysis.exc # "ZeroDivisionError"
    /\ Returned =>
        \A k \in Evaluated :
            LET p == analysis.pods[k]
                L == p.locals
            IN  /\ L.cpu_percentage =
                      IF L.cpu_request # None /\ L.cpu_request.n > 0
                      THEN Rat(100 * L.cpu_usage.n * L.cpu_request.d,
                               L.cpu_usage.d * L.cpu_request.n)
                      ELSE Num(0)
                /\ L.mem_percentage =
                      IF L.mem_request # None /\ L.mem_request.n > 0
                      THEN Rat(100 * L.mem_usage.n * L.mem_request.d,
                               L.mem_usage.d * L.mem_request.n)
                      ELSE Num(0)
                /\ Entries(memory_data, p.pod, p.namespace) = {} =>
                      L.mem_usage = Num(0) /\ L.mem_percentage = Num(0)

\* A pod with a positive CPU request, a memory request and no memory usage
C4_Witness ==
    /\ Returned
    /\ \E k \in Evaluated :
          LET p == analysis.pods[k]
          IN  /\ p.locals.cpu_request # None
              /\ p.locals.cpu_request.n > 0
              /\ p.locals.cpu_percentage # Num(0)
              /\ p.locals.mem_request # None
              /\ Entries(memory_data, p.pod, p.namespace) = {}

\* The iterations that end with at least one suggestion, in loop order
Reported ==
    LET Hit(p) == p.outcome = "evaluated" /\ p.locals.fired # <<>>
    IN  SelectSeq(analysis.pods, Hit)

\* C5: the list returned holds one Recommendation for every sample of the
\* CPU-usage series that has both labels non-empty, parses and triggers a
\* rule, in the order of the series, and nothing else.
C5_OrderedSubsequence ==
    Returned =>
        /\ Len(analysis.pods) = Len(cpu_data)
        /\ \A i \in 1..Len(cpu_data) :
              /\ analysis.pods[i].index = i
              /\ analysis.pods[i].outcome = "evaluated" <=>
                    /\ Sound(cpu_data[i])
                    /\ cpu_data[i].metric.pod # ""
                    /\ cpu_data[i].metric.namespace # ""
        /\ Len(analysis.recommendations) = Len(Reported)
        /\ \A j \in 1..Len(Reported) :
              /\ analysis.recommendations[j].pod_name = cpu_data[Reported[j].index].metric.pod
              /\ analysis.recommendations[j].namespace =
                    cpu_data[Reported[j].index].metric.namespace
        /\ \A j \in 1..(Len(Reported) - 1) : Reported[j].index < Reported[j + 1].index
        /\ cpu_data = <<>> => analysis.recommendations = <<>>

\* Two samples, the first without pod label, the second reported, while the
\* memory-usage series names a pod the CPU-usage series lacks
C5_Witness ==
    /\ Returned
    /\ Len(cpu_data) = 2
    /\ analysis.pods[1].outcome = "continue"
    /\ Len(analysis.recommendations) = 1
    /\ analysis.recommendations[1].pod_name = "b"
    /\ Entries(cpu_data, "a", "ns") = {}
    /\ Entries(memory_data, "a", "ns") # {}

\* The order of the rules as C6 gives it
StatedOrder ==
    <<"low_cpu", "low_mem", "over_utilized", "high_mem",
      "cpu_throttling", "mem_overcommit", "near_idle">>

\* C6: the suggestion string is the ", "-join and the reason string the
\* "; "-join of the phrases of exactly the rules whose condition holds, in the
\* stated order, and both lists have the same length.
C6_IndependentOrderedRules ==
    Returned =>
        /\ Len(analysis.recommendations) = Len(Reported)
        /\ \A k \in Evaluated :
              LET L == analysis.pods[k].locals
                  Holds(r) == RuleFires(r, L)
                  due == SelectSeq(StatedOrder, Holds)
              IN  /\ L.fired = due
                  /\ Len(L.suggestions) = Len(L.reasons)
                  /\ L.suggestions = [i \in 1..Len(due) |-> SuggestionOf(due[i])]
                  /\ L.reasons = [i \in 1..Len(due) |-> ReasonOf(due[i], L)]
        /\ \A j \in 1..Len(Reported) :
              /\ analysis.recommendations[j].suggested_optimization =
                    Join(Reported[j].locals.suggestions, ", ")
              /\ analysis.recommendations[j].reason = Join(Reported[j].locals.reasons, "; ")

\* A pod meeting the Low-CPU and the High-memory condition
C6_Witness ==
    /\ Returned
    /\ \E j \in 1..Len(analysis.recommendations) :
          /\ {"low_cpu", "high_mem"} \subseteq Range(Reported[j].locals.fired)
          /\ analysis.recommendations[j].suggested_optimization =
                "Reduce CPU requests, Increase Memory limits"

Ended == pc \in {"returned", "raised"}

Steps == [i \in 1..Len(trace) |-> trace[i].arg]

\* C7: the probe comes first; when it fails nothing else happens; when it
\* succeeds the run is the four queries, analyze, render and export, in this
\* order and once each.
C7_ProbeThenPipeline ==
    /\ trace # <<>> => trace[1].arg = "/"
    /\ Ended =>
          IF trace[1].outcome # "200"
          THEN /\ Steps = <<"/">>
               /\ stdout = <<>>
               /\ file = NoFile
          ELSE Steps = <<"/", "cpu_usage", "memory_usage", "cpu_requests",
                         "memory_requests", "analyze_usage", "display_recommendations",
                         "export_to_json">>

\* C8: after a successful probe, whatever queries and whether or not the
\* export fail, the run reaches analyze, render and export and ends normally;
\* a failed query is sent once and yields an empty series.
C8_FailuresAreRecovered ==
    (Ended /\ trace[1].outcome = "200") =>
        /\ pc = "returned"
        /\ {"analyze_usage", "display_recommendations", "export_to_json"}
              \subseteq Range(Steps)
        /\ \A q \in Range(QUERIES) :
              Cardinality({i \in 1..Len(trace) : trace[i].arg = q}) = 1

\* C9: with several samples of one key in the memory-usage, CPU-request or
\* memory-request series, the value used is the one of the last of them, and
\* no error is raised.
C9_LastWriteWins ==
    /\ analysis.exc # "pending" =>
          ((\A m \in Range(memory_data) \cup Range(cpu_requests) \cup Range(memory_requests) :
                Sound(m)) => Returned)
    /\ Returned =>
        \A k \in Evaluated :
            LET p == analysis.pods[k]
            IN  /\ p.locals.mem_usage =
                      IF Entries(memory_data, p.pod, p.namespace) = {} THEN Num(0)
                      ELSE Rat(LastValue(memory_data, p.pod, p.namespace).n, MiB)
                /\ p.locals.cpu_request =
                      IF Entries(cpu_requests, p.pod, p.namespace) = {} THEN None
                      ELSE LastValue(cpu_requests, p.pod, p.namespace)
                /\ p.locals.mem_request =
                      IF Entries(memory_requests, p.pod, p.namespace) = {} THEN None
                      ELSE Rat(LastValue(memory_requests, p.pod, p.namespace).n, MiB)

\* Two samples of one key with different values, and that pod evaluated
C9_Witness ==
    /\ Returned
    /\ \E k \in Evaluated :
          LET p == analysis.pods[k]
              S == Entries(cpu_requests, p.pod, p.namespace)
          IN  /\ Cardinality(S) = 2
              /\ \E i, j \in S : cpu_requests[i].value[2] # cpu_requests[j].value[2]

Position(q, e) == CHOOSE i \in 1..Len(q) : q[i] = e

\* C10: for a pod whose CPU request is > 0, when CPU throttling fires,
\* Over-utilized has fired too, and "Increase CPU limits or add replicas"
\* stands before "Increase CPU requests" in the suggestions.
C10_ThrottlingImpliesOverUtilized ==
    Returned =>
        \A k \in Evaluated :
            LET L == analysis.pods[k].locals
            IN  (/\ L.cpu_request # None
                 /\ L.cpu_request.n > 0
                 /\ "Increase CPU requests" \in Range(L.suggestions)) =>
                    /\ "Increase CPU limits or add replicas" \in Range(L.suggestions)
                    /\ Position(L.suggestions, "Increase CPU limits or add replicas")
                          < Position(L.suggestions, "Increase CPU requests")

\* A pod with a positive CPU request that uses more than it requests
C10_Witness ==
    /\ Returned
    /\ \E k \in Evaluated :
          LET L == analysis.pods[k].locals
          IN  /\ L.cpu_request # None
              /\ L.cpu_request.n > 0
              /\ "cpu_throttling" \in Range(L.fired)

====
